---- MODULE Spec2Model ----
(***************************************************************************)
(* Model of the payment-tool relay of support-flow:                        *)
(*   src/app/api/stripe/call-stripe-tool/route.ts                          *)
(* One request at a time is followed from its arrival (OPTIONS or POST)    *)
(* through the dispatcher and the refund / capture resolvers, one step per *)
(* awaited upstream call, to the response.  Requests share no state, so    *)
(* NextRequest clears the request-scoped state.                            *)
(*                                                                         *)
(* Strings that are searched for substrings (tool names) are sequences of  *)
(* atoms; no concatenation of two atoms creates one of the searched words. *)
(* Amounts are counted in tenths (1507 is 150.7); numeric strings are      *)
(* sequences of characters that Number() parses.                           *)
(* metadata is passed through to refunds.create unchanged and is left out. *)
(*                                                                         *)
(* The batch-call list view, src/app/(dashboard)/outbound/page.tsx, is     *)
(* the second part: its own specification SpecList follows the mounted     *)
(* page, the requests it has in flight and the backend collection.  The    *)
(* search box only filters the rows shown and is left empty.               *)
(***************************************************************************)
EXTENDS Integers, Sequences, FiniteSets, TLC

\* ------------------------------------------------------------------ bounds
MaxCharges == 2          \* longest charge list charges.list returns here
MaxMutations == 2        \* cancels and retries the user confirms in the list view

\* ------------------------------------------------------- program constants
ChargeListLimit == 10

\* ----------------------------------------------------------------- values
Undefined == "undefined"          \* an absent / undefined string field
Truthy(v) == v # Undefined /\ v # ""

\* permissive cross-origin headers: modelled by their presence
corsHeaders == TRUE

\* --- amounts -------------------------------------------------------------
AmountUndefined == [kind |-> "undefined", tenths |-> 0, chars |-> <<>>]
Num(n) == [kind |-> "number", tenths |-> n, chars |-> <<>>]
Str(cs) == [kind |-> "string", tenths |-> 0, chars |-> cs]
NaN == [kind |-> "NaN", tenths |-> 0, chars |-> <<>>]

Digits == {"0", "1", "2", "3", "4", "5", "6", "7", "8", "9"}
DigitVal(c) ==
  CASE c = "0" -> 0 [] c = "1" -> 1 [] c = "2" -> 2 [] c = "3" -> 3
    [] c = "4" -> 4 [] c = "5" -> 5 [] c = "6" -> 6 [] c = "7" -> 7
    [] c = "8" -> 8 [] c = "9" -> 9

RECURSIVE DigitsVal(_)
DigitsVal(cs) ==
  IF cs = <<>> THEN 0
  ELSE 10 * DigitsVal(SubSeq(cs, 1, Len(cs) - 1)) + DigitVal(cs[Len(cs)])

AllDigits(cs) == \A i \in 1..Len(cs) : cs[i] \in Digits
PointAt(cs) == IF \E i \in 1..Len(cs) : cs[i] = "."
               THEN CHOOSE i \in 1..Len(cs) : cs[i] = "." /\ \A j \in 1..(i-1) : cs[j] # "."
               ELSE 0

\* Number(string) for an unsigned decimal literal with at most one
\* decimal; the empty string is 0, anything else is NaN.
NumberOfString(cs) ==
  LET p == PointAt(cs) IN
  IF cs = <<>> THEN Num(0)
  ELSE IF p = 0
    THEN IF AllDigits(cs) THEN Num(10 * DigitsVal(cs)) ELSE NaN
    ELSE LET ip == SubSeq(cs, 1, p - 1)
             fp == SubSeq(cs, p + 1, Len(cs))
         IN IF AllDigits(ip) /\ AllDigits(fp) /\ Len(ip) + Len(fp) > 0 /\ Len(fp) <= 1
            THEN Num(10 * DigitsVal(ip) + DigitsVal(fp))
            ELSE NaN

\* JavaScript truthiness of an amount value
AmountTruthy(a) ==
  \/ a.kind = "number" /\ a.tenths # 0
  \/ a.kind = "string" /\ a.chars # <<>>

\* Math.round: nearest integer, ties towards +infinity
MathRound(t) == (t + 5) \div 10

\* --- tool names ----------------------------------------------------------
Includes(s, sub) ==
  \E i \in 1..(Len(s) - Len(sub) + 1) : SubSeq(s, i, i + Len(sub) - 1) = sub

refunds_create == <<"refund", "s", "_", "create">>
create_refund == <<"create", "_", "refund">>
stripe_refunds_create == <<"stripe", "_", "refund", "s", "_", "create">>
paymentIntents_capture == <<"paymentIntents", "_", "capture">>
capture_payment_intent == <<"capture", "_", "payment", "_", "intent">>
stripe_paymentIntents_capture == <<"stripe", "_", "paymentIntents", "_", "capture">>
capturePaymentIntent == <<"capture", "PaymentIntent">>
stripe_capture_payment_intent == <<"stripe", "_", "capture", "_", "payment", "_", "intent">>

RefundAliases == {refunds_create, create_refund, stripe_refunds_create}
CaptureAliases == {paymentIntents_capture, capture_payment_intent,
                   stripe_paymentIntents_capture, capturePaymentIntent,
                   stripe_capture_payment_intent}

\* names of the tools the toolkit registers for the configured actions
list_customers == <<"list", "_", "customers">>
list_payment_intents == <<"list", "_", "payment", "_", "intent", "s">>
Catalog == {create_refund, list_customers, list_payment_intents}

ToolNames ==
  RefundAliases \cup CaptureAliases \cup Catalog \cup
  { <<>>,
    <<"my", "_", "capture", "_", "payment", "_", "intent", "_", "v2">>,
    <<"capture", "_", "charge">>,
    <<"do", "_", "capture">>,
    <<"refund", "_", "capture">>,
    <<"capture", "_", "refund">>,
    <<"auto", "_", "refund">>,
    <<"Capture", "_", "charge">>,
    <<"unknown", "_", "tool">> }

\* --- request parameters --------------------------------------------------
NoParameters ==
  [charge_id |-> Undefined, payment_intent_id |-> Undefined,
   customerIdentifier |-> Undefined, orderIdentifier |-> Undefined,
   paymentIntentId |-> Undefined, intent_id |-> Undefined, id |-> Undefined,
   amount |-> AmountUndefined, reason |-> Undefined]

RefundAmounts == {AmountUndefined, Num(5000)}
CaptureAmounts ==
  {AmountUndefined, Num(0), Num(1507), Num(25), Num(4), Num(-25),
   Str(<<"1", "5", "0", ".", "7">>), Str(<<"1", "5", "0">>), Str(<<"0">>),
   Str(<<"a", "b", "c">>), Str(<<>>)}

\* parameter objects sent with refund tools
RefundParameters ==
  { [NoParameters EXCEPT !.charge_id = c, !.payment_intent_id = p,
                         !.customerIdentifier = cu, !.orderIdentifier = o,
                         !.amount = a, !.reason = r] :
      c \in {Undefined, "", "ch_a", "ch_b"}, p \in {Undefined, "", "pi_1"},
      cu \in {Undefined, "", "cus@x"}, o \in {Undefined, "", "order_7"},
      a \in RefundAmounts, r \in {Undefined, "duplicate"} }

\* parameter objects sent with capture tools
CaptureParameters ==
  { [NoParameters EXCEPT !.payment_intent_id = p1, !.paymentIntentId = p2,
                         !.intent_id = p3, !.id = p4, !.amount = a] :
      p1 \in {Undefined, "", "pi_1"}, p2 \in {Undefined, "pi_2"},
      p3 \in {Undefined, "", "pi_3"}, p4 \in {Undefined, "pi_4"},
      a \in CaptureAmounts }

Parameters == RefundParameters \cup CaptureParameters

\* the JSON body: toolName and parameters may each be missing
Bodies ==
  [hasToolName : BOOLEAN, toolName : ToolNames,
   hasParameters : BOOLEAN, parameters : Parameters]

\* --- upstream values -----------------------------------------------------
\* latest_charge of a payment intent: null, a bare id or an expanded charge
LatestCharges ==
  { [kind |-> "null", id |-> Undefined],
    [kind |-> "string", id |-> "ch_pi"],
    [kind |-> "object", id |-> "ch_pi_x"] }
NoLatestCharge == [kind |-> "null", id |-> Undefined]

\* result of findPaymentByIdentifier: null or { charge?, paymentIntent? }
NoPaymentInfo == [found |-> FALSE, charge |-> Undefined, hasPaymentIntent |-> FALSE,
                  latest_charge |-> NoLatestCharge]
PaymentInfos ==
  { [found |-> TRUE, charge |-> c, hasPaymentIntent |-> h, latest_charge |-> lc] :
      c \in {Undefined, "ch_ord"}, h \in BOOLEAN, lc \in LatestCharges }

\* result of findCustomerByIdentifier: null or a customer
NoCustomer == Undefined
Customers == {"cus_1"}

\* data of charges.list: the charges of a customer, most recent first
ChargeIds == {"ch_new", "ch_old"}
ChargeLists == UNION { [1..n -> ChargeIds] : n \in 0..MaxCharges }

\* --- responses -----------------------------------------------------------
NoResponse == [status |-> 0, headers |-> FALSE, result |-> FALSE, error |-> FALSE,
               message |-> FALSE, site |-> "none"]
\* NextResponse.json(body, { status, headers })
Json(status, headers, fields, site) ==
  [status |-> status, headers |-> headers,
   result |-> "result" \in fields, error |-> "error" \in fields,
   message |-> "message" \in fields, site |-> site]

\* one call of an upstream capability
Call(cap, id, amount, reason) ==
  [cap |-> cap, id |-> id, amount |-> amount, reason |-> reason]

VARIABLES
  secretKey,       \* process.env.STRIPE_SECRET_KEY is set
  pc,              \* position of the request being handled
  body,            \* the parsed JSON body of the request
  handler,         \* function the dispatcher returned through
  branch,          \* resolution branch taken by handleRefundRequest
  paymentIntent,   \* latest_charge of the retrieved payment intent
  paymentInfo,     \* result of findPaymentByIdentifier
  customer,        \* result of findCustomerByIdentifier
  charges,         \* charges.data
  chargeId,        \* charge the refund is issued on
  paymentIntentId, \* intent the capture is issued on
  captureParams,   \* amount_to_capture, if set
  calls,           \* upstream capability calls made for this request
  threw,           \* what was thrown inside the request, if anything
  response,        \* the response returned
  server,          \* list view: the backend's batch calls, id -> status
  mounted,         \* list view: OutboundPage is mounted
  batchCalls,      \* list view: useState batchCalls, the rows displayed
  loading,         \* list view: useState loading
  fetches,         \* list view: GET /api/batch-calls requests, in issue order
  mutations,       \* list view: DELETE / retry requests, in issue order
  alerts           \* list view: alert() has been shown

vars == <<secretKey, pc, body, handler, branch, paymentIntent, paymentInfo,
          customer, charges, chargeId, paymentIntentId, captureParams, calls,
          threw, response, server, mounted, batchCalls, loading, fetches,
          mutations, alerts>>

relayVars == <<secretKey, pc, body, handler, branch, paymentIntent, paymentInfo,
               customer, charges, chargeId, paymentIntentId, captureParams, calls,
               threw, response>>

listVars == <<server, mounted, batchCalls, loading, fetches, mutations, alerts>>

\* --- list view values ----------------------------------------------------
BatchIds == {"b1", "b2"}
\* a collection: the set of its rows
Rows(coll) == { [id |-> b, status |-> coll[b]] : b \in DOMAIN coll }
\* the page before it is mounted: lines 43-45
Unmounted ==
  /\ mounted = FALSE
  /\ batchCalls = {}
  /\ loading = TRUE
  /\ fetches = <<>>
  /\ mutations = <<>>
  /\ alerts = FALSE

locals == <<branch, paymentIntent, paymentInfo, customer, charges, chargeId,
            paymentIntentId, captureParams>>

NoBody == [hasToolName |-> FALSE, toolName |-> <<>>,
           hasParameters |-> FALSE, parameters |-> NoParameters]

Idle ==
  /\ pc = "idle"
  /\ body = NoBody
  /\ handler = "none"
  /\ branch = "none"
  /\ paymentIntent = NoLatestCharge
  /\ paymentInfo = NoPaymentInfo
  /\ customer = NoCustomer
  /\ charges = <<>>
  /\ chargeId = Undefined
  /\ paymentIntentId = Undefined
  /\ captureParams = AmountUndefined
  /\ calls = <<>>
  /\ threw = "none"
  /\ response = NoResponse

Init ==
  /\ secretKey \in BOOLEAN
  /\ Idle
  /\ server = [b \in BatchIds |-> "pending"]
  /\ Unmounted

\* return <response>
Return(r) ==
  /\ response' = r
  /\ pc' = "done"

\* ------------------------------------------------------------- dispatcher
OPTIONS ==
  /\ pc = "idle"
  /\ Return(Json(200, corsHeaders, {}, "L13"))
  /\ UNCHANGED <<listVars, secretKey, body, handler, locals, calls, threw>>

\* mutant: the substring fall-back knows refunds only
RouteOf_NoCaptureFallback(toolName) ==
  IF toolName \in RefundAliases THEN "handleRefundRequest"
  ELSE IF toolName \in CaptureAliases \/ Includes(toolName, capture_payment_intent)
    THEN "handleCaptureRequest"
  ELSE IF toolName \in Catalog THEN "handleToolCall"
  ELSE IF Includes(toolName, <<"refund">>) THEN "handleRefundRequest"
  ELSE "notFound"

\* lines 57-81: which handler a tool name is routed to
RouteOf(toolName) ==
  IF toolName \in RefundAliases THEN "handleRefundRequest"
  ELSE IF toolName \in CaptureAliases \/ Includes(toolName, capture_payment_intent)
    THEN "handleCaptureRequest"
  ELSE IF toolName \in Catalog THEN "handleToolCall"
  ELSE IF Includes(toolName, <<"refund">>) THEN "handleRefundRequest"
  ELSE IF Includes(toolName, <<"capture">>) THEN "handleCaptureRequest"
  ELSE "notFound"

\* the unknown-tool response of lines 77-80
ToolNotFound == Json(404, FALSE, {"error"}, "L77")

\* POST up to the hand-over to a resolver or to the generic call handler
POST ==
  /\ pc = "idle"
  /\ \E parsed \in BOOLEAN, b \in Bodies :
       /\ ~b.hasParameters => b.parameters = NoParameters
       /\ ~b.hasToolName => b.toolName = <<>>
       /\ IF ~secretKey
            THEN /\ Return(Json(500, corsHeaders, {"error"}, "L21"))
                 /\ UNCHANGED <<body, handler, threw>>
          ELSE IF ~parsed
            THEN /\ threw' = "request.json"
                 /\ Return(Json(500, corsHeaders, {"error"}, "L102"))
                 /\ UNCHANGED <<body, handler>>
          ELSE IF ~b.hasToolName \/ b.toolName = <<>>
            THEN /\ body' = b
                 /\ Return(Json(400, corsHeaders, {"error"}, "L31"))
                 /\ UNCHANGED <<handler, threw>>
          ELSE IF RouteOf(b.toolName) = "notFound"
            THEN /\ body' = b
                 /\ Return(ToolNotFound)
                 /\ UNCHANGED <<handler, threw>>
          ELSE /\ body' = b
               /\ handler' = RouteOf(b.toolName)
               /\ pc' = RouteOf(b.toolName)
               /\ UNCHANGED <<threw, response>>
  /\ UNCHANGED <<listVars, secretKey, locals, calls>>

\* lines 83-99 and the catch of lines 100-106
HandleToolCall ==
  /\ pc = "handleToolCall"
  /\ calls' = Append(calls, Call("handleToolCall", Undefined, AmountUndefined, Undefined))
  /\ \E ok \in BOOLEAN :
       IF ok THEN /\ Return(Json(200, corsHeaders, {"result"}, "L99"))
                  /\ UNCHANGED threw
       ELSE /\ threw' = "upstream"
            /\ Return(Json(500, corsHeaders, {"error"}, "L102"))
  /\ UNCHANGED <<listVars, secretKey, body, handler, locals>>

\* --------------------------------------------------------- refund resolver
\* the catch of lines 239-245
RefundCatch(kind) ==
  /\ threw' = kind
  /\ Return(Json(500, corsHeaders, {"error"}, "L241"))

\* mutant: the payment intent is looked at before the charge id
RefundBranch_IntentFirst(p) ==
  IF Truthy(p.payment_intent_id) THEN "paymentIntent"
  ELSE IF Truthy(p.charge_id) THEN "charge"
  ELSE IF Truthy(p.customerIdentifier) \/ Truthy(p.orderIdentifier)
    THEN IF Truthy(p.orderIdentifier) THEN "order" ELSE "customer"
  ELSE "none"

\* mutant: the guard of line 158 is missing
RefundBranch_Unguarded(p) ==
  IF Truthy(p.charge_id) THEN "charge"
  ELSE IF Truthy(p.payment_intent_id) THEN "paymentIntent"
  ELSE IF Truthy(p.orderIdentifier) THEN "order" ELSE "customer"

\* mutant: the order / customer lookups come before the payment intent
RefundBranch_LookupFirst(p) ==
  IF Truthy(p.charge_id) THEN "charge"
  ELSE IF Truthy(p.customerIdentifier) \/ Truthy(p.orderIdentifier)
    THEN IF Truthy(p.orderIdentifier) THEN "order" ELSE "customer"
  ELSE IF Truthy(p.payment_intent_id) THEN "paymentIntent"
  ELSE "none"

\* lines 123, 133, 158-167: the branch the parameters select
RefundBranch(p) ==
  IF Truthy(p.charge_id) THEN "charge"
  ELSE IF Truthy(p.payment_intent_id) THEN "paymentIntent"
  ELSE IF Truthy(p.customerIdentifier) \/ Truthy(p.orderIdentifier)
    THEN IF Truthy(p.orderIdentifier) THEN "order" ELSE "customer"
  ELSE "none"

\* mutant: the missing-charge check is dropped
HasLatestCharge_Always(lc) == TRUE

\* lines 137 and 208: latest_charge is truthy
HasLatestCharge(lc) == lc.kind # "null"

\* lines 144-146 and 209-211: a bare id or the id of an expanded charge
LatestChargeId(lc) == lc.id

\* mutant: the payment intent's charge is preferred to the direct charge
ExtractChargeId_IntentFirst(info) ==
  IF info.hasPaymentIntent /\ HasLatestCharge(info.latest_charge)
    THEN LatestChargeId(info.latest_charge)
  ELSE IF Truthy(info.charge) THEN info.charge
  ELSE Undefined

\* lines 207-212: the charge of a found payment
ExtractChargeId(info) ==
  IF Truthy(info.charge) THEN info.charge
  ELSE IF info.hasPaymentIntent /\ HasLatestCharge(info.latest_charge)
    THEN LatestChargeId(info.latest_charge)
  ELSE Undefined

\* mutant: the fall-through answers like an unknown resource
InvalidInput_NotFound == Json(404, corsHeaders, {"error"}, "L235")

\* lines 235-238
InvalidInput == Json(400, corsHeaders, {"error"}, "L235")

\* lines 119-133, 158-162: entry of handleRefundRequest up to its first await
HandleRefundRequest ==
  /\ pc = "handleRefundRequest"
  /\ IF ~body.hasParameters
       THEN /\ RefundCatch("TypeError")
            /\ UNCHANGED <<branch, chargeId>>
     ELSE LET b == RefundBranch(body.parameters) IN
       /\ branch' = b
       /\ threw' = threw
       /\ CASE b = "charge" ->
                 /\ chargeId' = body.parameters.charge_id
                 /\ pc' = "refunds.create"
                 /\ UNCHANGED response
            [] b = "paymentIntent" ->
                 /\ pc' = "paymentIntents.retrieve"
                 /\ UNCHANGED <<chargeId, response>>
            [] b = "order" ->
                 /\ pc' = "findPaymentByIdentifier"
                 /\ UNCHANGED <<chargeId, response>>
            [] b = "customer" ->
                 /\ pc' = "findCustomerByIdentifier"
                 /\ UNCHANGED <<chargeId, response>>
            [] b = "none" ->
                 /\ Return(InvalidInput)
                 /\ UNCHANGED chargeId
  /\ UNCHANGED <<listVars, secretKey, body, handler, paymentIntent, paymentInfo, customer,
                 charges, paymentIntentId, captureParams, calls>>

\* lines 135-146
PaymentIntentsRetrieve ==
  /\ pc = "paymentIntents.retrieve"
  /\ calls' = Append(calls, Call("paymentIntents.retrieve",
                                 body.parameters.payment_intent_id,
                                 AmountUndefined, Undefined))
  /\ \/ /\ RefundCatch("upstream")
        /\ UNCHANGED <<paymentIntent, chargeId>>
     \/ \E lc \in LatestCharges :
          /\ paymentIntent' = lc
          /\ threw' = threw
          /\ IF ~HasLatestCharge(lc)
               THEN /\ Return(Json(400, corsHeaders, {"error"}, "L138"))
                    /\ UNCHANGED chargeId
             ELSE /\ chargeId' = LatestChargeId(lc)
                  /\ pc' = "refunds.create"
                  /\ UNCHANGED response
  /\ UNCHANGED <<listVars, secretKey, body, handler, branch, paymentInfo, customer,
                 charges, paymentIntentId, captureParams>>

\* lines 162-167 and 205-219, 235-238
FindPaymentByIdentifier ==
  /\ pc = "findPaymentByIdentifier"
  /\ calls' = Append(calls, Call("findPaymentByIdentifier",
                                 body.parameters.orderIdentifier,
                                 AmountUndefined, Undefined))
  /\ \/ /\ RefundCatch("upstream")
        /\ UNCHANGED <<paymentInfo, chargeId, branch>>
     \/ \E info \in PaymentInfos \cup {NoPaymentInfo} :
          /\ paymentInfo' = info
          /\ threw' = threw
          /\ IF ~info.found /\ Truthy(body.parameters.customerIdentifier)
               THEN /\ branch' = "customer"
                    /\ pc' = "findCustomerByIdentifier"
                    /\ UNCHANGED <<chargeId, response>>
             ELSE IF info.found
               THEN IF ~Truthy(ExtractChargeId(info))
                      THEN /\ Return(Json(400, corsHeaders, {"error"}, "L215"))
                           /\ UNCHANGED <<chargeId, branch>>
                    ELSE /\ chargeId' = ExtractChargeId(info)
                         /\ pc' = "refunds.create"
                         /\ UNCHANGED <<response, branch>>
             ELSE /\ Return(InvalidInput)
                  /\ UNCHANGED <<chargeId, branch>>
  /\ UNCHANGED <<listVars, secretKey, body, handler, paymentIntent, customer, charges,
                 paymentIntentId, captureParams>>

\* lines 168-175
FindCustomerByIdentifier ==
  /\ pc = "findCustomerByIdentifier"
  /\ calls' = Append(calls, Call("findCustomerByIdentifier",
                                 body.parameters.customerIdentifier,
                                 AmountUndefined, Undefined))
  /\ \/ /\ RefundCatch("upstream")
        /\ UNCHANGED customer
     \/ \E c \in Customers \cup {NoCustomer} :
          /\ customer' = c
          /\ threw' = threw
          /\ IF c = NoCustomer
               THEN Return(Json(404, corsHeaders, {"error"}, "L171"))
             ELSE /\ pc' = "charges.list"
                  /\ UNCHANGED response
  /\ UNCHANGED <<listVars, secretKey, body, handler, branch, paymentIntent, paymentInfo,
                 charges, chargeId, paymentIntentId, captureParams>>

\* mutant: the oldest charge of the list is taken
LatestCharge_Last(data) == data[Len(data)]

\* line 191: the charge chosen from a non-empty list
LatestCharge(data) == data[1]

\* mutant: an empty list is answered like a missing input
NoChargesFound_400 == Json(400, corsHeaders, {"error"}, "L184")

\* lines 184-187
NoChargesFound == Json(404, corsHeaders, {"error"}, "L184")

\* lines 178-191
ChargesList ==
  /\ pc = "charges.list"
  /\ calls' = Append(calls, Call("charges.list", customer,
                                 Num(10 * ChargeListLimit), Undefined))
  /\ \/ /\ RefundCatch("upstream")
        /\ UNCHANGED <<charges, chargeId>>
     \/ \E data \in ChargeLists :
          /\ charges' = data
          /\ threw' = threw
          /\ IF Len(data) = 0
               THEN /\ Return(NoChargesFound)
                    /\ UNCHANGED chargeId
             ELSE /\ chargeId' = LatestCharge(data)
                  /\ pc' = "refunds.create"
                  /\ UNCHANGED response
  /\ UNCHANGED <<listVars, secretKey, body, handler, branch, paymentIntent, paymentInfo,
                 customer, paymentIntentId, captureParams>>

\* reason || 'requested_by_customer'
ReasonOf(p) == IF Truthy(p.reason) THEN p.reason ELSE "requested_by_customer"

\* the success response of each branch: lines 130, 154, 199-202, 228-231
RefundSuccess(b) ==
  CASE b = "charge" -> Json(200, corsHeaders, {"result"}, "L130")
    [] b = "paymentIntent" -> Json(200, corsHeaders, {"result"}, "L154")
    [] b = "customer" -> Json(200, corsHeaders, {"result", "message"}, "L199")
    [] b = "order" -> Json(200, corsHeaders, {"result", "message"}, "L228")

\* mutant: the refund is issued a second time
RefundsCreate_Twice ==
  /\ pc = "refunds.create"
  /\ calls' = calls \o << Call("refunds.create", chargeId,
                               body.parameters.amount, ReasonOf(body.parameters)),
                          Call("refunds.create", chargeId,
                               body.parameters.amount, ReasonOf(body.parameters)) >>
  /\ \/ RefundCatch("upstream")
     \/ /\ Return(RefundSuccess(branch))
        /\ UNCHANGED threw
  /\ UNCHANGED <<listVars, secretKey, body, handler, locals>>

\* stripe.refunds.create of lines 124, 148, 192, 221 and the return after it
RefundsCreate ==
  /\ pc = "refunds.create"
  /\ calls' = Append(calls, Call("refunds.create", chargeId,
                                 body.parameters.amount, ReasonOf(body.parameters)))
  /\ \/ RefundCatch("upstream")
     \/ /\ Return(RefundSuccess(branch))
        /\ UNCHANGED threw
  /\ UNCHANGED <<listVars, secretKey, body, handler, locals>>

\* -------------------------------------------------------- capture resolver
\* the catch of lines 286-292
CaptureCatch(kind) ==
  /\ threw' = kind
  /\ Return(Json(500, corsHeaders, {"error"}, "L288"))

\* mutant: a ?? b ?? c ?? d, the first field that is present wins
FirstPaymentIntentId_Nullish(p) ==
  IF p.payment_intent_id # Undefined THEN p.payment_intent_id
  ELSE IF p.paymentIntentId # Undefined THEN p.paymentIntentId
  ELSE IF p.intent_id # Undefined THEN p.intent_id
  ELSE p.id

\* lines 259-263: a || b || c || d
FirstPaymentIntentId(p) ==
  IF Truthy(p.payment_intent_id) THEN p.payment_intent_id
  ELSE IF Truthy(p.paymentIntentId) THEN p.paymentIntentId
  ELSE IF Truthy(p.intent_id) THEN p.intent_id
  ELSE p.id

\* lines 272-277
AmountOf(a) ==
  IF a.kind = "number" THEN a
  ELSE IF AmountTruthy(a) THEN NumberOfString(a.chars)
  ELSE AmountUndefined

\* lines 279-282: amount_to_capture, absent when the amount is falsy or NaN
CaptureParamsOf(a) ==
  LET amount == AmountOf(a) IN
  IF AmountTruthy(amount) /\ amount.kind # "NaN"
    THEN Num(10 * MathRound(amount.tenths))
  ELSE AmountUndefined

\* lines 258-282
HandleCaptureRequest ==
  /\ pc = "handleCaptureRequest"
  /\ IF ~body.hasParameters
       THEN /\ CaptureCatch("TypeError")
            /\ UNCHANGED <<paymentIntentId, captureParams>>
     ELSE /\ paymentIntentId' = FirstPaymentIntentId(body.parameters)
          /\ threw' = threw
          /\ IF ~Truthy(FirstPaymentIntentId(body.parameters))
               THEN /\ Return(Json(400, corsHeaders, {"error"}, "L266"))
                    /\ UNCHANGED captureParams
             ELSE /\ captureParams' = CaptureParamsOf(body.parameters.amount)
                  /\ pc' = "paymentIntents.capture"
                  /\ UNCHANGED response
  /\ UNCHANGED <<listVars, secretKey, body, handler, branch, paymentIntent, paymentInfo,
                 customer, charges, chargeId, calls>>

\* lines 284-285
PaymentIntentsCapture ==
  /\ pc = "paymentIntents.capture"
  /\ calls' = Append(calls, Call("paymentIntents.capture", paymentIntentId,
                                 captureParams, Undefined))
  /\ \/ CaptureCatch("upstream")
     \/ /\ Return(Json(200, corsHeaders, {"result"}, "L285"))
        /\ UNCHANGED threw
  /\ UNCHANGED <<listVars, secretKey, body, handler, locals>>

\* the response has been sent; the next request starts from a clean slate
NextRequest ==
  /\ pc = "done"
  /\ pc' = "idle"
  /\ body' = NoBody
  /\ handler' = "none"
  /\ branch' = "none"
  /\ paymentIntent' = NoLatestCharge
  /\ paymentInfo' = NoPaymentInfo
  /\ customer' = NoCustomer
  /\ charges' = <<>>
  /\ chargeId' = Undefined
  /\ paymentIntentId' = Undefined
  /\ captureParams' = AmountUndefined
  /\ calls' = <<>>
  /\ threw' = "none"
  /\ response' = NoResponse
  /\ UNCHANGED <<listVars, secretKey>>

Next ==
  \/ OPTIONS
  \/ POST
  \/ HandleToolCall
  \/ HandleRefundRequest
  \/ PaymentIntentsRetrieve
  \/ FindPaymentByIdentifier
  \/ FindCustomerByIdentifier
  \/ ChargesList
  \/ RefundsCreate
  \/ HandleCaptureRequest
  \/ PaymentIntentsCapture
  \/ NextRequest

Spec == Init /\ [][Next]_vars

\* ---------------------------------------------------------------- list view
\* the backend behind /api/batch-calls: a cancel or a retry it accepts
Backend(coll, kind, b) ==
  [coll EXCEPT ![b] = IF kind = "cancel" THEN "cancelled" ELSE "pending"]

\* lines 51-54: loadBatchCalls up to its await; the fetch is then in flight
LoadBatchCalls ==
  /\ loading' = TRUE
  /\ fetches' = Append(fetches, [state |-> "sent", ok |-> FALSE, data |-> {}])

\* lines 47-49: the effect that runs once after the first render
Mount ==
  /\ ~mounted
  /\ mounted' = TRUE
  /\ LoadBatchCalls
  /\ UNCHANGED <<relayVars, server, batchCalls, mutations, alerts>>

\* GET /api/batch-calls is answered by the backend from its current state
ServeFetch ==
  \E n \in 1..Len(fetches) : \E ok \in BOOLEAN :
    /\ fetches[n].state = "sent"
    /\ fetches' = [fetches EXCEPT ![n] =
                     [state |-> "served", ok |-> ok,
                      data |-> IF ok THEN Rows(server) ELSE {}]]
    /\ UNCHANGED <<relayVars, server, mounted, batchCalls, loading, mutations, alerts>>

\* lines 55-65: the response of a fetch arrives
FetchSettled ==
  \E n \in 1..Len(fetches) :
    /\ fetches[n].state = "served"
    /\ batchCalls' = IF fetches[n].ok THEN fetches[n].data ELSE {}
    /\ loading' = FALSE
    /\ fetches' = [fetches EXCEPT ![n].state = "done"]
    /\ UNCHANGED <<relayVars, server, mounted, mutations, alerts>>

\* a row of the table with its menu: lines 130-136 and 191-233
Shown(b, statuses) ==
  /\ mounted /\ ~loading
  /\ \E row \in batchCalls : row.id = b /\ row.status \in statuses

\* lines 68-76: Cancel is chosen in the menu of a row
HandleCancel ==
  \E b \in BatchIds : \E confirmed \in BOOLEAN :
    /\ Shown(b, {"pending", "in_progress"})
    /\ Len(mutations) < MaxMutations
    /\ mutations' = IF confirmed
                      THEN Append(mutations, [kind |-> "cancel", id |-> b,
                                              state |-> "sent", ok |-> FALSE])
                    ELSE mutations
    /\ UNCHANGED <<relayVars, server, mounted, batchCalls, loading, fetches, alerts>>

\* lines 89-93: Retry is chosen in the menu of a row
HandleRetry ==
  \E b \in BatchIds :
    /\ Shown(b, {"failed", "completed"})
    /\ Len(mutations) < MaxMutations
    /\ mutations' = Append(mutations, [kind |-> "retry", id |-> b,
                                       state |-> "sent", ok |-> FALSE])
    /\ UNCHANGED <<relayVars, server, mounted, batchCalls, loading, fetches, alerts>>

\* DELETE /api/batch-calls/{id} or POST .../retry is handled by the backend
ServeMutation ==
  \E m \in 1..Len(mutations) : \E ok \in BOOLEAN :
    /\ mutations[m].state = "sent"
    /\ mutations' = [mutations EXCEPT ![m].state = "served", ![m].ok = ok]
    /\ server' = IF ok THEN Backend(server, mutations[m].kind, mutations[m].id)
                 ELSE server
    /\ UNCHANGED <<relayVars, mounted, batchCalls, loading, fetches, alerts>>

\* lines 78-86 and 95-103: the response of a cancel or a retry arrives
MutationSettled ==
  \E m \in 1..Len(mutations) :
    /\ mutations[m].state = "served"
    /\ mutations' = [mutations EXCEPT ![m].state = "done"]
    /\ IF mutations[m].ok
         THEN /\ LoadBatchCalls
              /\ UNCHANGED alerts
       ELSE /\ alerts' = TRUE
            /\ UNCHANGED <<loading, fetches>>
    /\ UNCHANGED <<relayVars, server, mounted, batchCalls>>

\* the batch calls the backend holds when the page is opened
ServerStates == [BatchIds -> {"pending", "failed"}]

ListInit ==
  /\ secretKey = TRUE
  /\ Idle
  /\ server \in ServerStates
  /\ Unmounted

ListNext ==
  \/ Mount
  \/ ServeFetch
  \/ FetchSettled
  \/ HandleCancel
  \/ HandleRetry
  \/ ServeMutation
  \/ MutationSettled

SpecList == ListInit /\ [][ListNext]_vars

AllSettled ==
  /\ mounted
  /\ \A n \in 1..Len(fetches) : fetches[n].state = "done"
  /\ \A m \in 1..Len(mutations) : mutations[m].state = "done"

Succeeded == SelectSeq(mutations, LAMBDA m : m.state = "done" /\ m.ok)

\* C14: every successful cancel or retry has issued one more fetch, and
\* once all fetches and mutations have completed the rows displayed are
\* those the most recently issued fetch returned and loading is off.
C14_LatestFetchDisplayed ==
  /\ mounted => Len(fetches) = 1 + Len(Succeeded)
  /\ AllSettled =>
       /\ batchCalls = fetches[Len(fetches)].data
       /\ ~loading

\* ------------------------------------------------------------ properties
Done == pc = "done"
Refunds == SelectSeq(calls, LAMBDA c : c.cap = "refunds.create")
InRefund == handler = "handleRefundRequest" /\ body.hasParameters
Made(cap) == \E i \in 1..Len(calls) : calls[i].cap = cap

OnlyField(p, f) ==
  /\ Truthy(p[f])
  /\ \A g \in {"charge_id", "payment_intent_id", "customerIdentifier",
              "orderIdentifier"} \ {f} : p[g] = Undefined

\* C1: with a non-empty charge_id every upstream call of the refund resolver
\* is refunds.create on exactly that charge id, whatever the other
\* identifiers are, and the request ends after exactly one such call.
C1_ChargeIdWins ==
  (InRefund /\ Truthy(body.parameters.charge_id)) =>
     /\ \A i \in 1..Len(calls) :
           calls[i].cap = "refunds.create" /\ calls[i].id = body.parameters.charge_id
     /\ Done => Len(calls) = 1

C1_Witness ==
  /\ Done /\ InRefund
  /\ body.parameters.charge_id = "ch_b"
  /\ body.parameters.payment_intent_id = "pi_1"
  /\ body.parameters.orderIdentifier = "order_7"
  /\ body.parameters.customerIdentifier = "cus@x"
  /\ Len(calls) = 1 /\ calls[1].id = "ch_b"
  /\ response.status = 200

\* C2: only payment_intent_id given and the retrieved intent has no
\* latest_charge: the answer is 400 with an error body and refunds.create
\* was not called.
C2_IntentWithoutCharge ==
  (Done /\ InRefund /\ OnlyField(body.parameters, "payment_intent_id")
        /\ Made("paymentIntents.retrieve") /\ threw = "none"
        /\ paymentIntent.kind = "null") =>
     /\ response.status = 400 /\ response.error /\ ~response.result
     /\ Refunds = <<>>

C2_Witness ==
  /\ Done /\ InRefund /\ OnlyField(body.parameters, "payment_intent_id")
  /\ Made("paymentIntents.retrieve") /\ threw = "none"
  /\ paymentIntent.kind = "null"
  /\ response.site = "L138"

NoIdentifier(p) ==
  \A g \in {"charge_id", "payment_intent_id", "customerIdentifier",
            "orderIdentifier"} : ~Truthy(p[g])

C4_FirstCharge ==
  (InRefund /\ OnlyField(body.parameters, "customerIdentifier")
            /\ customer # NoCustomer /\ Len(charges) > 0) =>
     /\ pc = "refunds.create" => Refunds = <<>> /\ chargeId = charges[1]
     /\ Done => Len(Refunds) = 1 /\ Refunds[1].id = charges[1]

C4_Witness ==
  /\ Done /\ InRefund /\ OnlyField(body.parameters, "customerIdentifier")
  /\ charges = <<"ch_new", "ch_old">>
  /\ Len(Refunds) = 1 /\ Refunds[1].id = "ch_new"
  /\ response.site = "L199"

\* C5: only the customer identifier given, the customer found and an empty
\* charge list returned: the answer is 404 with an error body, no refund.
C5_NoCharges ==
  (Done /\ InRefund /\ OnlyField(body.parameters, "customerIdentifier")
        /\ customer # NoCustomer /\ Made("charges.list") /\ threw = "none"
        /\ charges = <<>>) =>
     /\ response.status = 404 /\ response.error /\ ~response.result
     /\ Refunds = <<>>

C5_Witness ==
  /\ Done /\ InRefund /\ OnlyField(body.parameters, "customerIdentifier")
  /\ customer = "cus_1" /\ Made("charges.list") /\ threw = "none"
  /\ charges = <<>> /\ response.site = "L184"

\* C6: every response of the endpoint, OPTIONS and POST alike, carries the
\* cross-origin headers.
C6_CorsOnEveryResponse ==
  Done => response.headers = corsHeaders

Routed == pc # "idle" /\ body.hasToolName /\ body.toolName # <<>>

Captures == SelectSeq(calls, LAMBDA c : c.cap = "paymentIntents.capture")
ValidNumeric(a) ==
  a.kind = "string" /\ a.chars # <<>> /\ NumberOfString(a.chars).kind = "number"
GivenAmount(a) ==
  IF a.kind = "number" THEN a.tenths ELSE NumberOfString(a.chars).tenths

\* C8: the capture call names the first given intent id; its
\* amount_to_capture is the given number or valid numeric string rounded to
\* the nearest integer, and is absent when no amount is given.
C8_CaptureAmount ==
  (handler = "handleCaptureRequest" /\ body.hasParameters /\ Captures # <<>>) =>
     LET a == body.parameters.amount IN
     /\ Captures[1].id = paymentIntentId
     /\ (a.kind = "number" \/ ValidNumeric(a)) =>
           Captures[1].amount = Num(10 * MathRound(GivenAmount(a)))
     /\ a.kind = "undefined" => Captures[1].amount = AmountUndefined

\* the failure class of an error response and its status
ClassStatus ==
  CASE response.site \in {"L31", "L138", "L215", "L235", "L266"} -> 400
    [] response.site \in {"L77", "L171", "L184"} -> 404
    [] response.site = "L21" -> 500
    [] response.site \in {"L102", "L241", "L288"} ->
         IF threw = "TypeError" THEN 400 ELSE 500
    [] OTHER -> 200

\* C9: every POST outcome is a success (result, no error, status 200) or a
\* failure (error, no result) with the status of its class; a request
\* without its parameters is a missing input.
C9_OutcomeClasses ==
  (Done /\ response.site # "L13") =>
     /\ response.result # response.error
     /\ response.result => response.status = 200 /\ threw = "none"
     /\ response.error => response.status = ClassStatus /\ response.status # 200

\* C10: refunds.create is called at most once per request, always with a
\* non-empty charge id, and the resolver never reaches the call without one.
C10_OneResolvedRefund ==
  /\ Len(Refunds) <= 1
  /\ \A i \in 1..Len(Refunds) : Truthy(Refunds[i].id)
  /\ pc = "refunds.create" => Truthy(chargeId) /\ Refunds = <<>>

C10_Witness ==
  /\ Done /\ branch = "order" /\ paymentInfo.found
  /\ paymentInfo.charge = Undefined
  /\ paymentInfo.latest_charge.kind = "object"
  /\ Len(Refunds) = 1 /\ Refunds[1].id = "ch_pi_x"
  /\ response.site = "L228"

Lookups == {"findPaymentByIdentifier", "findCustomerByIdentifier", "charges.list"}

\* C11: with a payment_intent_id and no charge_id the order lookup, the
\* customer lookup and the charge listing are never called, whatever order
\* and customer identifiers are given, and an intent without a charge ends
\* the request with the 400 of the intent branch and without a refund.
C11_IntentDecides ==
  (InRefund /\ ~Truthy(body.parameters.charge_id)
            /\ Truthy(body.parameters.payment_intent_id)) =>
     /\ \A i \in 1..Len(calls) : calls[i].cap \notin Lookups
     /\ calls # <<>> => calls[1].cap = "paymentIntents.retrieve"
     /\ (Done /\ threw = "none" /\ paymentIntent.kind = "null") =>
           /\ response.status = 400 /\ response.site = "L138"
           /\ Len(calls) = 1

C11_Witness ==
  /\ Done /\ InRefund
  /\ body.parameters.charge_id = Undefined
  /\ body.parameters.payment_intent_id = "pi_1"
  /\ body.parameters.orderIdentifier = "order_7"
  /\ body.parameters.customerIdentifier = "cus@x"
  /\ threw = "none" /\ paymentIntent.kind = "null"
  /\ response.site = "L138" /\ Len(calls) = 1

OrderAndCustomer(p) ==
  /\ ~Truthy(p.charge_id) /\ ~Truthy(p.payment_intent_id)
  /\ Truthy(p.orderIdentifier) /\ Truthy(p.customerIdentifier)

\* the charge of a payment: its direct charge, else its intent's latest one
ChargeOfPayment(info) ==
  IF info.charge # Undefined THEN info.charge
  ELSE IF info.hasPaymentIntent THEN info.latest_charge.id
  ELSE Undefined

\* C12: with order and customer identifiers (no charge id, no intent id) the
\* order lookup is the first call; once it returned a payment the customer
\* lookup and the charge listing are never called and the request ends with
\* one refund on the payment's charge or, without a charge, with the 400 of
\* line 215; the customer lookup is made only after an order lookup that
\* returned nothing.
C12_OrderBeforeCustomer ==
  (InRefund /\ OrderAndCustomer(body.parameters)) =>
     /\ calls # <<>> => calls[1].cap = "findPaymentByIdentifier"
     /\ paymentInfo.found =>
           /\ ~Made("findCustomerByIdentifier") /\ ~Made("charges.list")
           /\ Done =>
                IF ChargeOfPayment(paymentInfo) # Undefined
                  THEN /\ Len(Refunds) = 1
                       /\ Refunds[1].id = ChargeOfPayment(paymentInfo)
                       /\ response.status \in {200, 500}
                ELSE /\ Refunds = <<>>
                     /\ response.status = 400 /\ response.site = "L215"
     /\ Made("findCustomerByIdentifier") =>
           /\ ~paymentInfo.found
           /\ Len(calls) >= 2 /\ calls[2].cap = "findCustomerByIdentifier"

C12_Witness ==
  /\ Done /\ InRefund /\ OrderAndCustomer(body.parameters)
  /\ paymentInfo.found /\ paymentInfo.charge = "ch_ord"
  /\ paymentInfo.hasPaymentIntent /\ paymentInfo.latest_charge.id = "ch_pi"
  /\ Len(calls) = 2 /\ calls[2].cap = "refunds.create" /\ calls[2].id = "ch_ord"
  /\ response.site = "L228"

CaptureFields == <<"payment_intent_id", "paymentIntentId", "intent_id", "id">>
FirstGiven(p, i) ==
  /\ Truthy(p[CaptureFields[i]])
  /\ \A j \in 1..(i - 1) : ~Truthy(p[CaptureFields[j]])

C15_OrderNotFound ==
  (Done /\ InRefund /\ ~Truthy(body.parameters.charge_id)
        /\ ~Truthy(body.parameters.payment_intent_id)
        /\ ~Truthy(body.parameters.customerIdentifier)
        /\ Truthy(body.parameters.orderIdentifier)
        /\ threw = "none" /\ ~paymentInfo.found) =>
     /\ response = Json(400, corsHeaders, {"error"}, "L235")
     /\ Len(calls) = 1 /\ calls[1].cap = "findPaymentByIdentifier"
     /\ Refunds = <<>>

C15_Witness ==
  /\ Done /\ InRefund /\ OnlyField(body.parameters, "orderIdentifier")
  /\ threw = "none" /\ ~paymentInfo.found
  /\ Made("findPaymentByIdentifier")
  /\ response.status = 400 /\ response.site = "L235"

====
